---- MODULE Spec2Model ----
(***************************************************************************)
(* llmfunctionclient/main.py: the tool-descriptor builder (to_tool and its *)
(* helpers) and FunctionClient, whose send_message drives the turn loop    *)
(* between a model collaborator and local callables.                       *)
(*                                                                         *)
(* Python values are represented as follows.  A str is a TLA+ string, or a *)
(* tuple of one-character strings where the code looks inside it (doc      *)
(* comments).  None, where the other values are strings, is the string     *)
(* None below; an omitted or None argument whose other values are not      *)
(* strings is Nothing, a given one Just(v).  A dict is a record; a key     *)
(* that is absent from the dict is absent from the record.                 *)
(***************************************************************************)
EXTENDS Integers, Sequences, FiniteSets, TLC

None == "None"
Nothing == <<>>
Just(x) == <<x>>

(***************************************************************************)
(* Bounds of the model.                                                    *)
(***************************************************************************)
\* messages in ConversationState from which on neither add_message nor a new
\* request is started
MaxMessages == 3
\* most messages in ConversationState when a send_message call starts
MaxHistory == 1
\* largest num_calls argument tried
MaxNumCalls == 2

(***************************************************************************)
(* Callables.  A callable is what inspect and a call can see of a Python   *)
(* function: __name__, __doc__, the signature's parameters in order (name, *)
(* annotation, default) and what calling it returns.  An annotation is a   *)
(* class, given by the set of classes issubclass() finds it under and, for *)
(* an enumeration, its member names in declaration order.                  *)
(***************************************************************************)
Class(mro, members) == [mro |-> mro, members |-> members]
StrClass   == Class({"str", "object"}, <<>>)
IntClass   == Class({"int", "object"}, <<>>)
BoolClass  == Class({"bool", "int", "object"}, <<>>)
FloatClass == Class({"float", "object"}, <<>>)
\* class Color(str, enum.Enum): RED = "r"; GREEN = "g"
ColorEnum  == Class({"Color", "str", "Enum", "object"}, <<"RED", "GREEN">>)
\* class Level(int, enum.Enum): LOW = 1; HIGH = 2
LevelEnum  == Class({"Level", "int", "Enum", "object"}, <<"LOW", "HIGH">>)
\* class Shape(enum.Enum): DOT = "dot"
ShapeEnum  == Class({"Shape", "Enum", "object"}, <<"DOT">>)

\* inspect.Parameter: default is Nothing for inspect.Parameter.empty
Parameter(name, annotation, default) ==
  [name |-> name, annotation |-> annotation, default |-> default]

\* body "const": returns ret; body "first": returns its first argument
Callable(name, doc, params, body, result) ==
  [name |-> name, doc |-> doc, params |-> params, body |-> body,
   ret |-> result]

\* def add(a: int, b: int): """Add.\na: x\nb: y"""
add == Callable("add",
  Just(<<"A", "d", "d", ".", "\n", "a", ":", " ", "x", "\n", "b", ":", " ", "y">>),
  <<Parameter("a", IntClass, Nothing), Parameter("b", IntClass, Nothing)>>,
  "const", "sum")
\* a second callable named add, with another body
add_v2 == Callable("add", Nothing,
  <<Parameter("a", IntClass, Nothing), Parameter("b", IntClass, Just("0"))>>,
  "const", "sum_v2")
\* def echo(s: str, c: Color = Color.RED): """ Echo. \n s:say \nnote\ns: it """
echo == Callable("echo",
  Just(<<" ", "E", ".", " ", "\n", " ", "s", ":", "s", "a", "y", " ", "\n",
         "n", "o", "\n", "s", ":", " ", "i", "t", " ">>),
  <<Parameter("s", StrClass, Nothing), Parameter("c", ColorEnum, Just("RED"))>>,
  "first", "")
\* def noop(): pass
noop == Callable("noop", Nothing, <<>>, "const", "ok")
\* def ratio(x: float)
ratio == Callable("ratio", Nothing, <<Parameter("x", FloatClass, Nothing)>>,
  "const", "r")
\* def flag(f: bool, l: Level = Level.LOW)
flag == Callable("flag", Nothing,
  <<Parameter("f", BoolClass, Nothing), Parameter("l", LevelEnum, Just("LOW"))>>,
  "const", "f")

\* The client holds references to function objects; Objects is the heap.
Objects == [fn_add |-> add, fn_add_v2 |-> add_v2, fn_echo |-> echo,
            fn_noop |-> noop, fn_ratio |-> ratio, fn_flag |-> flag]

deref(refs) == [k \in 1..Len(refs) |-> Objects[refs[k]]]

(***************************************************************************)
(* Strings the code looks inside: str.strip, str.split on newlines and the *)
(* regular expression of parse_description under re.match: optional white  *)
(* space, a group of one or more word characters, a colon, optional white  *)
(* space, and a group holding the rest of the line.                        *)
(***************************************************************************)
IsSpace(c) == c \in {" ", "\t", "\n", "\r"}

WordChars ==
  {"a", "b", "c", "d", "e", "f", "g", "h", "i", "j", "k", "l", "m", "n", "o",
   "p", "q", "r", "s", "t", "u", "v", "w", "x", "y", "z", "A", "B", "C", "D",
   "E", "F", "G", "H", "I", "J", "K", "L", "M", "N", "O", "P", "Q", "R", "S",
   "T", "U", "V", "W", "X", "Y", "Z", "0", "1", "2", "3", "4", "5", "6", "7",
   "8", "9", "_"}

IsWord(c) == c \in WordChars

\* the number of white-space characters s starts with
leading_space(s) ==
  CHOOSE k \in 0..Len(s) :
    /\ \A j \in 1..k : IsSpace(s[j])
    /\ k < Len(s) => ~IsSpace(s[k + 1])

\* the number of white-space characters s ends with
trailing_space(s) ==
  CHOOSE k \in 0..Len(s) :
    /\ \A j \in 1..k : IsSpace(s[Len(s) + 1 - j])
    /\ k < Len(s) => ~IsSpace(s[Len(s) - k])

lstrip(s) == SubSeq(s, leading_space(s) + 1, Len(s))

rstrip(s) == SubSeq(s, 1, Len(s) - trailing_space(s))

strip(s) == rstrip(lstrip(s))

\* the pieces of s between the positions breaks, in order
pieces(s, breaks) ==
  [j \in 1..(Cardinality(breaks) + 1) |->
     SubSeq(s,
            IF j = 1 THEN 1
            ELSE 1 + CHOOSE k \in breaks :
                       Cardinality({h \in breaks : h < k}) = j - 2,
            IF j = Cardinality(breaks) + 1 THEN Len(s)
            ELSE (CHOOSE k \in breaks :
                    Cardinality({h \in breaks : h < k}) = j - 1) - 1)]

\* s.split on the newline character
split_lines(s) == pieces(s, {k \in 1..Len(s) : s[k] = "\n"})

\* length of the longest prefix of s made of word characters
word_prefix(s) ==
  CHOOSE k \in 0..Len(s) :
    /\ \A j \in 1..k : IsWord(s[j])
    /\ k < Len(s) => ~IsWord(s[k + 1])

\* the pattern matched at the start of a, which starts with no white space,
\* its word prefix being w characters long
match_word(a, w) ==
  IF w > 0 /\ Len(a) > w /\ a[w + 1] = ":"
  THEN Just(<<SubSeq(a, 1, w), lstrip(SubSeq(a, w + 2, Len(a)))>>)
  ELSE Nothing

match_stripped(a) == match_word(a, word_prefix(a))

\* re.match of the pattern on a line: Nothing, or Just(<<group 1, group 2>>)
re_match(line) == match_stripped(lstrip(line))

\* the characters of the parameter names of the callables above
Chars(name) ==
  [a |-> <<"a">>, b |-> <<"b">>, s |-> <<"s">>, c |-> <<"c">>, x |-> <<"x">>,
   f |-> <<"f">>, l |-> <<"l">>][name]

(***************************************************************************)
(* The descriptor builder, main.py lines 7-98.  A function that can raise  *)
(* returns [ok |-> FALSE, error |-> <exception>] in place of its value.    *)
(***************************************************************************)
Raise(e) == [ok |-> FALSE, error |-> e]
Return(v) == [ok |-> TRUE, value |-> v]

\* a list comprehension over results that can raise: the list of the values,
\* or what the first failing element raises
collect(results) ==
  IF \E k \in 1..Len(results) : ~results[k].ok
  THEN results[CHOOSE k \in 1..Len(results) :
                 /\ ~results[k].ok
                 /\ \A h \in 1..(k - 1) : results[h].ok]
  ELSE Return([k \in 1..Len(results) |-> results[k].value])

\* param_descriptions as the loop over lines[1:] fills it, given what re.match
\* finds on each line: a later line overwrites an earlier one with the same
\* parameter name
descriptions_of(found) ==
  LET hits == {k \in 2..Len(found) : found[k] # Nothing}
      keys == {found[k][1][1] : k \in hits}
  IN  [key \in keys |->
         strip(found[CHOOSE k \in hits :
                       /\ found[k][1][1] = key
                       /\ \A h \in hits : found[h][1][1] = key => h <= k][1][2])]

param_dict(lines) == descriptions_of([k \in 1..Len(lines) |-> re_match(lines[k])])

\* lines 18-29, on the lines of the stripped doc comment
describe(lines) ==
  [top_description |-> strip(lines[1]), param_descriptions |-> param_dict(lines)]

parse_description(func) ==
  IF func.doc = Nothing \/ func.doc = Just(<<>>)
  THEN [top_description |-> <<>>, param_descriptions |-> <<>>]
  ELSE describe(split_lines(strip(func.doc[1])))

map_type(param) ==
  IF "str" \in param.annotation.mro THEN Return("string")
  ELSE IF "int" \in param.annotation.mro THEN Return("integer")
  ELSE Raise("ValueError")

\* the member names, or Nothing for None
map_enum(param) ==
  IF "Enum" \in param.annotation.mro THEN Just(param.annotation.members)
  ELSE Nothing

\* parameters[name] for a parameter of type param_type whose map_enum is
\* options
schema_of(param_type, options, has_desc, desc) ==
  IF options # Nothing /\ options[1] # <<>>
  THEN IF has_desc
       THEN [type |-> param_type, enum |-> options[1], description |-> desc]
       ELSE [type |-> param_type, enum |-> options[1]]
  ELSE IF has_desc THEN [type |-> param_type, description |-> desc]
       ELSE [type |-> param_type]

\* parameters[name] as built by one iteration of parse_parameters
parameter_schema(param, param_type, param_descriptions) ==
  schema_of(param_type, map_enum(param),
            Chars(param.name) \in DOMAIN param_descriptions,
            IF Chars(param.name) \in DOMAIN param_descriptions
            THEN param_descriptions[Chars(param.name)] ELSE <<>>)

\* one iteration of the loop of parse_parameters, map_type having returned
\* or raised t: <<name, parameters[name]>>
typed_parameter(param, t, param_descriptions) ==
  IF ~t.ok THEN t
  ELSE Return(<<param.name,
                parameter_schema(param, t.value, param_descriptions)>>)

parse_parameter(param, param_descriptions) ==
  typed_parameter(param, map_type(param), param_descriptions)

\* the properties dict, in insertion order, as a sequence of <<name, schema>>;
\* the loop raises at the first parameter map_type rejects
parse_parameters(func, param_descriptions) ==
  collect([k \in 1..Len(func.params) |->
             parse_parameter(func.params[k], param_descriptions)])

\* the names of the parameters at the positions req, in signature order
names_at(params, req) ==
  [j \in 1..Cardinality(req) |->
     params[CHOOSE k \in req : Cardinality({h \in req : h < k}) = j - 1].name]

\* get_required stopping at the first parameter that has a default
get_required_leading(func) ==
  names_at(func.params,
           {k \in 1..Len(func.params) :
              \A h \in 1..k : func.params[h].default = Nothing})

get_required(func) ==
  names_at(func.params,
           {k \in 1..Len(func.params) : func.params[k].default = Nothing})

\* lines 85-98, given what parse_description and parse_parameters return
tool_dict(func, top_description, props) ==
  IF ~props.ok THEN props
  ELSE IF top_description # <<>>
    THEN Return([type |-> "function",
                 function |-> [name |-> func.name,
                               parameters |-> [type |-> "object",
                                               properties |-> props.value,
                                               required |-> get_required(func)]],
                 description |-> top_description])
  ELSE Return([type |-> "function",
               function |-> [name |-> func.name,
                             parameters |-> [type |-> "object",
                                             properties |-> props.value,
                                             required |-> get_required(func)]]])

described_tool(func, d) ==
  tool_dict(func, d.top_description,
            parse_parameters(func, d.param_descriptions))

to_tool(func) == described_tool(func, parse_description(func))

(***************************************************************************)
(* What the collaborator can answer.  A response is either a failure of    *)
(* the collaborator (create raises) or response.choices[0].message with    *)
(* its content and tool_calls; tool_calls None or [] is the empty tuple.   *)
(***************************************************************************)
ArgsS     == "{\"s\": \"x\"}"
ArgsAB    == "{\"a\": 1, \"b\": 2}"
ArgsA     == "{\"a\": 1}"
ArgsEmpty == "{}"
ArgsBad   == "{\"s\": "

\* json.loads on the argument strings above
json_loads(str) ==
  CASE str = ArgsS     -> Return([s |-> "x"])
    [] str = ArgsAB    -> Return([a |-> 1, b |-> 2])
    [] str = ArgsA     -> Return([a |-> 1])
    [] str = ArgsEmpty -> Return(<<>>)
    [] OTHER           -> Raise("JSONDecodeError")

ToolCall(id, name, arguments) ==
  [id |-> id, function |-> [name |-> name, arguments |-> arguments]]

TC1 == ToolCall("c1", "echo", ArgsS)
TC2 == ToolCall("c2", "add", ArgsAB)
TC3 == ToolCall("c3", "add", ArgsA)
TC4 == ToolCall("c4", "echo", ArgsBad)
TC5 == ToolCall("c5", "noop", ArgsS)

Message(content, tool_calls) ==
  [error |-> FALSE, content |-> content, tool_calls |-> tool_calls]

Responses ==
  {[error |-> TRUE, content |-> None, tool_calls |-> <<>>],
   Message("answer", <<>>),
   Message(None, <<TC1>>), Message(None, <<TC2>>), Message(None, <<TC3>>),
   Message(None, <<TC4>>), Message(None, <<TC1, TC2>>),
   Message(None, <<TC2, TC1>>), Message(None, <<TC1, TC4>>),
   Message(None, <<TC5>>)}

(***************************************************************************)
(* Calling a callable with a dict as its keyword arguments: TypeError on   *)
(* an unexpected keyword or a missing required one.                        *)
(***************************************************************************)
invoke(func, kwargs) ==
  LET keys == DOMAIN kwargs
      names == {func.params[k].name : k \in 1..Len(func.params)}
      required == {func.params[k].name :
                     k \in {h \in 1..Len(func.params) :
                              func.params[h].default = Nothing}}
  IN  IF ~(keys \subseteq names) \/ ~(required \subseteq keys)
        THEN Raise("TypeError")
      ELSE IF func.body = "first"
        THEN Return(IF func.params[1].name \in keys
                    THEN kwargs[func.params[1].name]
                    ELSE func.params[1].default[1])
      ELSE Return(func.ret)

(***************************************************************************)
(* FunctionClient, main.py lines 100-184.                                  *)
(***************************************************************************)
VARIABLES
  messages,        \* self.messages
  self_model,      \* self.model
  self_functions,  \* self.functions
  pc,              \* "idle", or where the last send_message call stands:
                   \* "loop" (at the while test), "returned", "raised"
  functions,       \* send_message's locals, after lines 171-177
  force_function,
  model,
  num_calls,
  done,
  i,
  ret,             \* what send_message returned
  err,             \* the exception send_message raised, or None
  call,            \* the arguments of the last send_message call and the
                   \* messages it started from
  requests         \* the rounds of the last send_message call, in order: the
                   \* args dict built, the keyword arguments create was
                   \* called with, and what the collaborator answered

vars == <<messages, self_model, self_functions, pc, functions, force_function,
          model, num_calls, done, i, ret, err, call, requests>>

\* [to_tool(func) for func in funcs]
tools_from(funcs) == collect([k \in 1..Len(funcs) |-> to_tool(funcs[k])])

\* the dict keeping the first func of each name
tools_map_of_first(funcs) ==
  [n \in {funcs[k].name : k \in 1..Len(funcs)} |->
     funcs[CHOOSE k \in 1..Len(funcs) :
             /\ funcs[k].name = n
             /\ \A h \in 1..Len(funcs) : funcs[h].name = n => k <= h]]

\* {func.__name__: func for func in funcs}: a later func overwrites an
\* earlier one of the same name
tools_map_of(funcs) ==
  [n \in {funcs[k].name : k \in 1..Len(funcs)} |->
     funcs[CHOOSE k \in 1..Len(funcs) :
             /\ funcs[k].name = n
             /\ \A h \in 1..Len(funcs) : funcs[h].name = n => h <= k]]

\* the pair funcs_to_tools returns
tools_pair(tools, tools_map) ==
  IF ~tools.ok THEN tools
  ELSE Return([tools |-> tools.value, tools_map |-> tools_map])

funcs_to_tools(funcs) == tools_pair(tools_from(funcs), tools_map_of(funcs))

(***************************************************************************)
(* The arguments tried.                                                    *)
(***************************************************************************)
InitialMessages == {Nothing, Just(<<>>),
                    Just(<<[role |-> "system", content |-> "be brief"]>>)}
Contents == {None, "hi"}
Roles == {None, "system"}
Models == {None, "m2"}
\* the tool lists tried: the client's default list first
ToolLists == <<<<"fn_echo", "fn_add">>, <<"fn_add", "fn_add_v2">>,
               <<"fn_ratio">>, <<"fn_flag", "fn_noop">>>>
DefaultFunctions == ToolLists[1]
FunctionLists == {Nothing, Just(<<>>), Just(ToolLists[2]), Just(ToolLists[3]),
                  Just(ToolLists[4])}
ForceFunctions == {[kind |-> "str", name |-> None],
                   [kind |-> "str", name |-> "add"],
                   [kind |-> "callable", func |-> "fn_echo"]}

\* funcs_to_tools of line 135 on each of the tool lists, computed once
ToolsTable ==
  [k \in 1..Len(ToolLists) |-> funcs_to_tools(deref(ToolLists[k]))]

tools_and_map(funcs) ==
  ToolsTable[CHOOSE k \in 1..Len(ToolLists) : ToolLists[k] = funcs]

NoCall == [content |-> None, role |-> None, model |-> None,
           functions |-> Nothing,
           force_function |-> [kind |-> "str", name |-> None],
           num_calls |-> 0, messages |-> <<>>]

\* add_message putting the new message first
add_message_front(msgs, content, role) ==
  <<[role |-> role, content |-> content]>> \o msgs

add_message(msgs, content, role) ==
  Append(msgs, [role |-> role, content |-> content])

\* the args dict of lines 136-142
request_args(mdl, msgs, tools, force) ==
  IF force # None /\ force # ""
  THEN [model |-> mdl, messages |-> msgs, tools |-> tools,
        tool_choice |-> [type |-> "function", function |-> [name |-> force]]]
  ELSE [model |-> mdl, messages |-> msgs, tools |-> tools]

\* create called with the latest message only
create_kwargs_latest(selfmodel, msgs, tools, args) ==
  [model |-> selfmodel,
   messages |-> IF msgs = <<>> THEN msgs ELSE <<msgs[Len(msgs)]>>,
   tools |-> tools]

\* the keyword arguments of the create call, lines 143-147
create_kwargs(selfmodel, msgs, tools, args) ==
  [model |-> selfmodel, messages |-> msgs, tools |-> tools]

\* function_message with the tool's name where the call's id belongs
function_message_by_name(tool_call, result) ==
  [role |-> "function", tool_call_id |-> tool_call.function.name,
   name |-> tool_call.function.name, content |-> result]

function_message(tool_call, result) ==
  [role |-> "function", tool_call_id |-> tool_call.id,
   name |-> tool_call.function.name, content |-> result]

\* lines 151-152 for one tool call, json.loads having returned or raised
\* args: the result, or the exception raised
dispatch_decoded(tools_map, name, args) ==
  IF ~args.ok THEN args
  ELSE IF name \notin DOMAIN tools_map THEN Raise("KeyError")
  ELSE invoke(tools_map[name], args.value)

dispatch(tools_map, tc) ==
  dispatch_decoded(tools_map, tc.function.name,
                   json_loads(tc.function.arguments))

\* the for loop reporting a failed call to the model and going on
append_results_reporting(msgs, tool_calls, results, failing) ==
  [messages |-> msgs \o [k \in 1..Len(tool_calls) |->
                     function_message(tool_calls[k],
                                      IF results[k].ok THEN results[k].value
                                      ELSE "error")],
   error |-> None]

\* the for loop of lines 150-153, the tool calls having the outcomes
\* results: it appends one message per tool call, in order, up to the first
\* call that raises
append_results(msgs, tool_calls, results, failing) ==
  IF failing = {}
  THEN [messages |-> msgs \o [k \in 1..Len(tool_calls) |->
                       function_message(tool_calls[k], results[k].value)],
        error |-> None]
  ELSE [messages |-> msgs \o [k \in 1..((CHOOSE k \in failing :
                                           \A h \in failing : k <= h) - 1) |->
                       function_message(tool_calls[k], results[k].value)],
        error |-> results[CHOOSE k \in failing :
                            \A h \in failing : k <= h].error]

results_of(msgs, tool_calls, results) ==
  append_results(msgs, tool_calls, results,
                 {k \in 1..Len(results) : ~results[k].ok})

run_tool_calls(msgs, tools_map, tool_calls) ==
  results_of(msgs, tool_calls,
             [k \in 1..Len(tool_calls) |-> dispatch(tools_map, tool_calls[k])])

\* one round with the collaborator, as the log of requests records it
Round(args, kwargs, response) ==
  <<[args |-> args, kwargs |-> kwargs, response |-> response]>>

\* lines 148-157, the response being in hand
handle_response(msgs, tools_map, response, round) ==
  IF response.error
    THEN [messages |-> msgs, done |-> FALSE, error |-> "UpstreamError",
          rounds |-> round]
  ELSE IF response.tool_calls # <<>>
    THEN [done |-> FALSE, rounds |-> round]
         @@ run_tool_calls(msgs, tools_map, response.tool_calls)
  ELSE [messages |-> Append(msgs, [role |-> "assistant",
                                    content |-> response.content]),
        done |-> TRUE, error |-> None, rounds |-> round]

\* lines 143-147, the args dict being built
create(msgs, selfmodel, tools, tools_map, args, response) ==
  handle_response(msgs, tools_map, response,
                  Round(args, create_kwargs(selfmodel, msgs, tools, args),
                        response))

\* lines 136-157, funcs_to_tools having returned or raised t
with_tools(t, msgs, selfmodel, force, mdl, response) ==
  IF ~t.ok
    THEN [messages |-> msgs, done |-> FALSE, error |-> t.error,
          rounds |-> <<>>]
  ELSE create(msgs, selfmodel, t.value.tools, t.value.tools_map,
              request_args(mdl, msgs, t.value.tools, force), response)

\* __send_message, when the collaborator answers response: the messages
\* afterwards, the value returned, the exception raised (or None) and the
\* rounds made with the collaborator (none or one)
private_send_message(msgs, selfmodel, funcs, force, mdl, response) ==
  with_tools(tools_and_map(funcs), msgs, selfmodel, force, mdl, response)

\* lines 169-176 of send_message
first_messages(msgs, content, role) ==
  IF content # None /\ content # "" THEN add_message(msgs, content, role)
  ELSE msgs

resolve_functions(given, defaults) ==
  IF given = Nothing \/ given = Just(<<>>) THEN defaults ELSE given[1]

resolve_force_function(given) ==
  IF given.kind = "callable" THEN Objects[given.func].name ELSE given.name

resolve_model(given, selfmodel) ==
  IF given = None \/ given = "" THEN selfmodel ELSE given

\* the call of line 183 passing force_function on
loop_keeps_force_function(force) == force

\* the force_function the call of line 183 passes: none, so the default
loop_force_function(force) == None

\* the while test without its "not done"
loop_ignores_done(d, k, n) == k < n

\* the while test of line 182
loop_continues(d, k, n) == ~d /\ k < n

\* send_message storing the resolved list as the client's default
self_functions_rebound(selffunctions, resolved) == resolved

\* self.functions and self.model after send_message: lines 172 and 176
\* rebind the locals functions and model, never the attributes
self_functions_after(selffunctions, resolved) == selffunctions

self_model_after(selfmodel, resolved) == selfmodel

\* __init__, lines 104-116
Init ==
  /\ \E m \in InitialMessages : messages = IF m = Nothing THEN <<>> ELSE m[1]
  /\ self_model = "m1"
  /\ self_functions = DefaultFunctions
  /\ pc = "idle"
  /\ functions = <<>>
  /\ force_function = None
  /\ model = None
  /\ num_calls = 0
  /\ done = FALSE
  /\ i = 0
  /\ ret = None
  /\ err = None
  /\ call = NoCall
  /\ requests = <<>>

\* no send_message call is in progress and none is remembered
NoFrame ==
  /\ pc' = "idle"
  /\ functions' = <<>>
  /\ force_function' = None
  /\ model' = None
  /\ num_calls' = 0
  /\ done' = FALSE
  /\ i' = 0
  /\ ret' = None
  /\ err' = None
  /\ call' = NoCall
  /\ requests' = <<>>

\* add_message, lines 125-129; role Nothing is the argument left out
AddMessage(content, role) ==
  /\ pc = "idle"
  /\ Len(messages) < MaxMessages
  /\ messages' = add_message(messages, content,
                             IF role = Nothing THEN "user" ELSE role[1])
  /\ NoFrame
  /\ UNCHANGED <<self_model, self_functions>>

\* what a call of __send_message that gave r leaves behind
Outcome(r) ==
  /\ messages' = r.messages
  /\ done' = r.done
  /\ err' = r.error
  /\ pc' = IF r.error = None THEN "loop" ELSE "raised"
  /\ requests' = requests \o r.rounds

\* send_message from its call to the first test of the while, lines 169-182
SendMessage(content, role, mdl, funcs, force, n, response) ==
  /\ pc = "idle"
  /\ Len(messages) <= MaxHistory
  /\ requests = <<>>
  /\ Outcome(private_send_message(
               first_messages(messages, content, role), self_model,
               resolve_functions(funcs, self_functions),
               resolve_force_function(force),
               resolve_model(mdl, self_model), response))
  /\ functions' = resolve_functions(funcs, self_functions)
  /\ force_function' = resolve_force_function(force)
  /\ model' = resolve_model(mdl, self_model)
  /\ num_calls' = n
  /\ i' = IF err' = None THEN 1 ELSE 0
  /\ ret' = None
  /\ call' = [content |-> content, role |-> role, model |-> mdl,
              functions |-> funcs, force_function |-> force, num_calls |-> n,
              messages |-> messages]
  /\ self_functions' = self_functions_after(
                         self_functions,
                         resolve_functions(funcs, self_functions))
  /\ self_model' = self_model_after(self_model,
                                   resolve_model(mdl, self_model))

\* one pass of the while loop, lines 182-183
LoopIteration(response) ==
  /\ pc = "loop"
  /\ loop_continues(done, i, num_calls)
  /\ Len(messages) < MaxMessages
  /\ Outcome(private_send_message(messages, self_model, functions,
                                  loop_force_function(force_function), model,
                                  response))
  /\ UNCHANGED <<self_model, self_functions, functions, force_function, model,
                 num_calls, i, ret, call>>

\* the while loop is left and line 184 returns
ReturnLast ==
  /\ pc = "loop"
  /\ ~loop_continues(done, i, num_calls)
  /\ IF messages = <<>>
     THEN pc' = "raised" /\ err' = "IndexError" /\ ret' = ret
     ELSE pc' = "returned" /\ ret' = messages[Len(messages)].content
                           /\ err' = err
  /\ UNCHANGED <<messages, self_model, self_functions, functions,
                 force_function, model, num_calls, done, i, call, requests>>

\* the caller has the value or the exception of the call; its frame is gone
CallEnds ==
  /\ pc \in {"returned", "raised"}
  /\ NoFrame
  /\ UNCHANGED <<messages, self_model, self_functions>>

\* The argument combinations tried.  The guards stand before the quantifiers
\* so that the arguments are enumerated only where the operation can happen.
CallAddMessage ==
  /\ pc = "idle"
  /\ \E content \in Contents \ {None}, role \in {Nothing, Just("system")} :
       AddMessage(content, role)

CallSendMessage ==
  /\ pc = "idle"
  /\ Len(messages) <= MaxHistory
  /\ \E content \in Contents, role \in Roles, mdl \in Models,
        funcs \in FunctionLists, force \in ForceFunctions,
        n \in 0..MaxNumCalls, response \in Responses :
       /\ (content = None => role = None)
       /\ SendMessage(content, role, mdl, funcs, force, n, response)

Loop ==
  /\ pc = "loop"
  /\ \E response \in Responses : LoopIteration(response)

Next ==
  \/ CallAddMessage
  \/ CallSendMessage
  \/ Loop
  \/ ReturnLast
  \/ CallEnds

Spec == Init /\ [][Next]_vars

(***************************************************************************)
(* The descriptor builder on its own: to_tool called on one callable.  The *)
(* callable is drawn from every signature of up to MaxParams parameters    *)
(* over the annotations and defaults below, with every doc comment below.  *)
(* Of the variables, call holds the argument func, pc is "idle" before the *)
(* call and "returned" or "raised" after it, ret is the tool returned and  *)
(* err the exception raised; the others keep their initial values.         *)
(***************************************************************************)
\* most parameters of a callable
MaxParams == 2

\* the names the parameters get, by position
ParamNames == <<"a", "s", "b", "c", "x">>

Annotations == {StrClass, IntClass, BoolClass, FloatClass, ColorEnum,
                LevelEnum, ShapeEnum}

\* no default (inspect.Parameter.empty), or one
Defaults == {Nothing, Just("d")}

\* no doc comment, an empty one, one of white space only, and those of add
\* and echo above
Docs == {Nothing, Just(<<>>), Just(<<" ", "\n", " ">>), add.doc, echo.doc}

Signatures ==
  UNION {[1..n -> Annotations \X Defaults] : n \in 0..MaxParams}

\* def f(...) with the signature sig and the doc comment doc
Function(sig, doc) ==
  Callable("f", doc,
           [k \in 1..Len(sig) |-> Parameter(ParamNames[k], sig[k][1], sig[k][2])],
           "const", "r")

BuilderInit ==
  /\ \E sig \in Signatures, doc \in Docs : call = [func |-> Function(sig, doc)]
  /\ messages = <<>>
  /\ self_model = "m1"
  /\ self_functions = DefaultFunctions
  /\ pc = "idle"
  /\ functions = <<>>
  /\ force_function = None
  /\ model = None
  /\ num_calls = 0
  /\ done = FALSE
  /\ i = 0
  /\ ret = None
  /\ err = None
  /\ requests = <<>>

\* the call of to_tool having returned or raised r
ToolOutcome(r) ==
  IF r.ok THEN pc' = "returned" /\ ret' = r.value /\ err' = None
  ELSE pc' = "raised" /\ ret' = None /\ err' = r.error

\* to_tool(func), lines 75-98
ToTool ==
  /\ pc = "idle"
  /\ ToolOutcome(to_tool(call.func))
  /\ UNCHANGED <<messages, self_model, self_functions, functions,
                 force_function, model, num_calls, done, i, call, requests>>

BuilderNext == ToTool

BuilderSpec == BuilderInit /\ [][BuilderNext]_vars

(***************************************************************************)
(* Properties.  A send_message call is remembered from its first step to   *)
(* the step that ends it: InCall holds, call has its arguments, requests   *)
(* its rounds with the collaborator.                                       *)
(***************************************************************************)
InCall == pc \in {"loop", "returned", "raised"}

IsPrefix(p, q) == Len(p) <= Len(q) /\ SubSeq(q, 1, Len(p)) = p

\* the messages in ConversationState when round k of the call was over: those
\* sent with the next request, or the present ones after the last round
After(k) ==
  IF k < Len(requests) THEN requests[k + 1].kwargs.messages ELSE messages

\* round k was completed without an exception
Completed(k) == k < Len(requests) \/ pc \in {"loop", "returned"}

IsAnswer(response) == ~response.error /\ response.tool_calls = <<>>
IsToolCalls(response) == ~response.error /\ response.tool_calls # <<>>

ActiveNames == {Objects[functions[k]].name : k \in 1..Len(functions)}

ForcedDirective(name) == [type |-> "function", function |-> [name |-> name]]

\* C1: one send_message call issues at most num_calls requests to the
\* collaborator, whatever the collaborator answers.
C1_AtMostNumCallsRequests == InCall => Len(requests) <= num_calls

\* C2: when force_function names (or is) a tool of the active list, the first
\* request of the call carries tool_choice = {type: function, function:
\* {name: that tool's name}}.
C2_FirstRequestForcesTool ==
  (InCall /\ requests # <<>> /\ force_function \in ActiveNames)
    => /\ "tool_choice" \in DOMAIN requests[1].kwargs
       /\ requests[1].kwargs.tool_choice = ForcedDirective(force_function)

\* the function messages the claim C3 expects for the tool calls of a response
ExpectedResults(tool_calls) ==
  [k \in 1..Len(tool_calls) |->
     [role |-> "function", tool_call_id |-> tool_calls[k].id,
      name |-> tool_calls[k].function.name,
      content |-> dispatch(tools_map_of(deref(functions)), tool_calls[k]).value]]

\* C3: after a response carrying n >= 1 tool calls, and before the next
\* request (or the return), exactly n function messages have been appended,
\* one per call in the order of the calls, the k-th with the k-th call's id,
\* tool name and result.
C3_OneFunctionMessagePerCall ==
  \A k \in 1..Len(requests) :
    (IsToolCalls(requests[k].response) /\ Completed(k))
      => After(k) = requests[k].kwargs.messages
                    \o ExpectedResults(requests[k].response.tool_calls)

C3_Witness ==
  /\ Len(requests) >= 2
  /\ Len(requests[1].response.tool_calls) = 2
  /\ requests[1].response.tool_calls[1].id = "c2"

\* C4: a response without tool calls, on whichever turn, makes send_message
\* append exactly one assistant message with the answer text, issue no
\* further request and return that text.
C4_FinalAnswerEndsCall ==
  \A k \in 1..Len(requests) :
    IsAnswer(requests[k].response)
      => /\ k = Len(requests)
         /\ pc \in {"loop", "returned"}
         /\ messages = Append(requests[k].kwargs.messages,
                              [role |-> "assistant",
                               content |-> requests[k].response.content])
         /\ pc = "returned" => ret = requests[k].response.content

C4_Witness ==
  /\ pc = "returned"
  /\ Len(requests) = 2
  /\ IsAnswer(requests[2].response)
  /\ ret = "answer"

\* C5: no request after the first of a call carries a forced-tool directive,
\* nor is one put into the args dict built for it, whatever force_function
\* was given.
C5_NoForcedToolAfterFirst ==
  \A k \in 2..Len(requests) :
    /\ "tool_choice" \notin DOMAIN requests[k].kwargs
    /\ "tool_choice" \notin DOMAIN requests[k].args

C5_Witness ==
  /\ Len(requests) >= 2
  /\ force_function = "echo"
  /\ call.force_function.kind = "callable"

\* C6: when num_calls requests have been made and the collaborator has only
\* returned tool calls, send_message leaves the loop (and returns the last
\* message's content, appending no assistant message).
C6_BudgetReachedReturns ==
  (pc = "loop" /\ ~done /\ Len(requests) >= num_calls)
    => ~loop_continues(done, i, num_calls)

\* C7: send_message called with content and no role appends, before the
\* first request, a message of role "user" with that content.
C7_DefaultRoleIsUser ==
  (InCall /\ call.content \notin {None, ""} /\ call.role = None)
    => /\ Len(messages) > Len(call.messages)
       /\ messages[Len(call.messages) + 1]
            = [role |-> "user", content |-> call.content]

\* C8: the active tool list is the functions argument whenever one is given,
\* an empty list included, and the descriptors of every request are built
\* from exactly that list.
C8_GivenFunctionsAreActive ==
  (InCall /\ call.functions # Nothing)
    => /\ functions = call.functions[1]
       /\ \A k \in 1..Len(requests) :
            Return(requests[k].kwargs.tools)
              = tools_from(deref(call.functions[1]))

\* the parameter types the documentation supports: string-like, and
\* integer-like other than boolean
Supported(class) ==
  "str" \in class.mro \/ ("int" \in class.mro /\ "bool" \notin class.mro)

HasUnsupportedParameter(refs) ==
  \E k \in 1..Len(refs) :
    \E h \in 1..Len(Objects[refs[k]].params) :
      ~Supported(Objects[refs[k]].params[h].annotation)

\* C9: if a callable of the active list has a parameter of an unsupported
\* type, send_message raises the schema error and has issued no request.
C9_UnsupportedTypeFailsBeforeRequest ==
  (InCall /\ HasUnsupportedParameter(functions))
    => pc = "raised" /\ err = "ValueError" /\ requests = <<>>

\* C10: ConversationState is append-only: every step of add_message and of
\* send_message, returning or raising, leaves the earlier messages as a
\* prefix of the later ones.
C10_AppendOnly == [][IsPrefix(messages, messages')]_vars

C10_Witness ==
  /\ pc = "raised"
  /\ call.messages # <<>>
  /\ Len(messages) >= Len(call.messages) + 2

\* the callable of the active list that a name stands for when the later of
\* two callables of one name wins
LaterCallable(name) ==
  Objects[functions[CHOOSE k \in 1..Len(functions) :
                      /\ Objects[functions[k]].name = name
                      /\ \A h \in (k + 1)..Len(functions) :
                           Objects[functions[h]].name # name]]

\* C15: when two callables of the active list share a name, a tool call with
\* that name invokes the later one: the function message holds the later
\* callable's result.
C15_LaterCallableWins ==
  \A k \in 1..Len(requests) :
    (IsToolCalls(requests[k].response) /\ Completed(k))
      => \A j \in 1..Len(requests[k].response.tool_calls) :
           /\ requests[k].response.tool_calls[j].function.name \in ActiveNames
           /\ After(k)[Len(requests[k].kwargs.messages) + j].content
                = invoke(LaterCallable(
                           requests[k].response.tool_calls[j].function.name),
                         json_loads(requests[k].response.tool_calls[j]
                                      .function.arguments).value).value

C15_Witness ==
  /\ pc = "loop"
  /\ functions = <<"fn_add", "fn_add_v2">>
  /\ requests # <<>>
  /\ requests[Len(requests)].response.tool_calls = <<TC3>>
  /\ messages[Len(messages)].content = "sum_v2"

\* ConversationState when the first request of the call is made: the messages
\* of earlier calls and the message of lines 169-170
StartMessages ==
  IF call.content \notin {None, ""}
  THEN Append(call.messages, [role |-> call.role, content |-> call.content])
  ELSE call.messages

\* C16: every request carries the whole ConversationState of that moment,
\* in order: the first request of a call the messages of earlier calls and
\* the message the call appended first, a later request all the messages
\* there are, the function messages of the earlier turns included.
C16_RequestCarriesAllMessages ==
  [][Len(requests') = Len(requests) + 1
       => requests'[Len(requests')].kwargs.messages
            = IF pc = "idle" THEN StartMessages' ELSE messages]_vars

C16_Witness ==
  /\ Len(requests) >= 2
  /\ call.messages # <<>>
  /\ Len(requests[2].kwargs.messages) = Len(call.messages) + 1
  /\ requests[2].kwargs.messages[Len(call.messages) + 1].role = "function"

\* C17: every request of a call is issued with the model argument when one
\* is given, and with the client's default model when none is.
C17_RequestsUseGivenModel ==
  InCall =>
    \A k \in 1..Len(requests) :
      requests[k].kwargs.model
        = IF call.model \notin {None, ""} THEN call.model ELSE self_model

\* a tool call that cannot be dispatched: unknown name, arguments that do not
\* decode, a required key missing or an unexpected key present
CannotDispatch(tc) ==
  \/ tc.function.name \notin ActiveNames
  \/ ~json_loads(tc.function.arguments).ok
  \/ LET keys == DOMAIN json_loads(tc.function.arguments).value
         params == LaterCallable(tc.function.name).params
     IN  \/ \E h \in 1..Len(params) :
              params[h].default = Nothing /\ params[h].name \notin keys
         \/ \E key \in keys :
              \A h \in 1..Len(params) : params[h].name # key

\* the positions of the tool calls of round k that cannot be dispatched
Undispatchable(k) ==
  {j \in 1..Len(requests[k].response.tool_calls) :
     CannotDispatch(requests[k].response.tool_calls[j])}

\* C18: when a tool call of a turn cannot be dispatched, send_message raises:
\* no function message is appended for that call or a later one, no further
\* request is made, and the messages of the earlier calls of the turn stay.
C18_FailedDispatchAborts ==
  \A k \in 1..Len(requests) :
    (IsToolCalls(requests[k].response) /\ Undispatchable(k) # {})
      => /\ k = Len(requests)
         /\ pc = "raised"
         /\ err # None
         /\ messages
              = requests[k].kwargs.messages
                \o [j \in 1..((CHOOSE f \in Undispatchable(k) :
                                 \A g \in Undispatchable(k) : f <= g) - 1) |->
                      ExpectedResults(requests[k].response.tool_calls)[j]]

C18_Witness ==
  /\ pc = "raised"
  /\ requests # <<>>
  /\ requests[Len(requests)].response.tool_calls = <<TC1, TC4>>
  /\ err = "JSONDecodeError"
  /\ Len(messages) = Len(requests[Len(requests)].kwargs.messages) + 1
  /\ messages[Len(messages)].tool_call_id = "c1"

\* C19: no step of send_message changes the client's default tool list or
\* default model, and a call without functions or model arguments uses the
\* defaults of the construction.
C19_DefaultsKept ==
  [][/\ self_functions' = self_functions
     /\ self_model' = self_model
     /\ (pc = "idle" /\ pc' # "idle" /\ call'.functions = Nothing)
          => /\ functions' = DefaultFunctions
             /\ \A k \in 1..Len(requests') :
                  Return(requests'[k].kwargs.tools)
                    = tools_from(deref(DefaultFunctions))
     /\ (pc = "idle" /\ pc' # "idle" /\ call'.model = None)
          => /\ model' = "m1"
             /\ \A k \in 1..Len(requests') :
                  requests'[k].kwargs.model = "m1"]_vars

C19_Witness ==
  /\ InCall
  /\ call.functions = Nothing
  /\ call.model = None
  /\ requests # <<>>
  /\ \E k \in 1..Len(call.messages) : call.messages[k].content = "sum_v2"

(***************************************************************************)
(* Properties of the descriptor builder, under BuilderSpec.                *)
(***************************************************************************)
Built == pc = "returned"

Params == call.func.params

\* the schema of the k-th parameter in the tool returned
Schema(k) == ret.function.parameters.properties[k][2]

StringLike(class) == "str" \in class.mro

IsEnumeration(class) == "Enum" \in class.mro

\* C11: a string-like parameter type maps to "string", an integer-like one
\* other than boolean to "integer", and any other type, boolean included,
\* makes to_tool raise the schema error.  (Enumerations that are neither
\* string-like nor integer-like are left to C14.)
C11_TypeMapping ==
  (/\ pc \in {"returned", "raised"}
   /\ \A k \in 1..Len(Params) :
        IsEnumeration(Params[k].annotation) => Supported(Params[k].annotation))
    => IF \A k \in 1..Len(Params) : Supported(Params[k].annotation)
       THEN /\ Built
            /\ \A k \in 1..Len(Params) :
                 Schema(k).type = IF StringLike(Params[k].annotation)
                                  THEN "string" ELSE "integer"
       ELSE pc = "raised" /\ err = "ValueError"

\* C12: the tool's description, the trimmed first line of the doc comment,
\* is a field of the tool's "function" object when it is not empty, and
\* there is no description key anywhere in the tool when it is empty.
C12_DescriptionInsideFunction ==
  Built =>
    IF parse_description(call.func).top_description # <<>>
    THEN /\ "description" \in DOMAIN ret.function
         /\ ret.function.description
              = parse_description(call.func).top_description
    ELSE /\ "description" \notin DOMAIN ret
         /\ "description" \notin DOMAIN ret.function
         /\ \A k \in 1..Len(Params) : "description" \notin DOMAIN Schema(k)

\* C13: the required list holds exactly the names of the parameters without
\* a default, each once, wherever the defaulted ones stand; a callable
\* without parameters has an empty required list and empty properties.
C13_RequiredAreUndefaulted ==
  Built =>
    /\ {ret.function.parameters.required[j] :
          j \in 1..Len(ret.function.parameters.required)}
         = {Params[k].name :
              k \in {h \in 1..Len(Params) : Params[h].default = Nothing}}
    /\ Len(ret.function.parameters.required)
         = Cardinality({h \in 1..Len(Params) : Params[h].default = Nothing})
    /\ Params = <<>> => /\ ret.function.parameters.required = <<>>
                        /\ ret.function.parameters.properties = <<>>

C13_Witness ==
  /\ Built
  /\ Len(Params) = 2
  /\ Params[1].default # Nothing
  /\ Params[2].default = Nothing
  /\ ret.function.parameters.required = <<Params[2].name>>

\* C14: when a parameter's type is an enumeration, of string or of integer
\* values, to_tool succeeds and the parameter's enum field lists the member
\* names in declaration order; a parameter of another type has no enum
\* field.  (The other parameters are of types C11 has mapped.)
C14_EnumerationsListMemberNames ==
  (/\ pc \in {"returned", "raised"}
   /\ \A k \in 1..Len(Params) :
        IsEnumeration(Params[k].annotation) \/ Supported(Params[k].annotation))
    => /\ Built
       /\ \A k \in 1..Len(Params) :
            IF IsEnumeration(Params[k].annotation)
            THEN /\ "enum" \in DOMAIN Schema(k)
                 /\ Schema(k).enum = Params[k].annotation.members
            ELSE "enum" \notin DOMAIN Schema(k)

====
